---------------------------- MODULE Spec2Model ----------------------------
(***************************************************************************)
(* Model of package ratelimit (ratelimit/net.go): a net.Conn wrapper that  *)
(* sleeps after each Read or Write to approximate a bytes/second limit.    *)
(*                                                                         *)
(* Time is an integer number of nanoseconds.  Every method of              *)
(* RateLimitedConn has a VALUE receiver, so each call works on a copy of   *)
(* the struct held by the caller: the copy lives in the call's frame       *)
(* (field rcv) and the caller's value (rlc) is what New returned.          *)
(***************************************************************************)
EXTENDS Integers, Sequences, FiniteSets, TLC

\* ---------------------------------------------------------------- bounds
MaxCalls  == 2           \* calls of the wrapper's methods per run
MaxTicks  == 2           \* free clock ticks per run
Tick      == 200000000   \* granularity of a free clock tick, ns
BufLen    == 1024        \* len(b) of the caller's buffer
MaxPack   == 8           \* packets of the connection test, at most
LPack     == 256         \* bytes per packet of the connection test
ShortN    == 2           \* a short count returned by the stream

\* ------------------------------------------------------ program constants
Second   == 1000000000   \* time.Second.Nanoseconds()
ZeroTime == -1           \* the zero time.Time (IsZero), before any Now()

NilConn  == "nil"
Stream   == "stream"
ConnVals == {NilConn, Stream}

NoSet    == 0 - 1        \* no successful Set*Limit call so far
NoErr    == "nil"
ErrLimits == "read/write limits cannot be negative"
ErrRead   == "read limit cannot be negative"
ErrWrite  == "write limit cannot be negative"
ErrEOF    == "EOF"
ErrClosed == "use of closed network connection"

LimitVals == {-1, 0, 4096, 600000000, 2000000000}
SetVals   == {-1, 0, 4096}
\* what the underlying Read/Write may return: nothing at end of stream, a
\* short count with an error, a full buffer
IOResults == {[n |-> 0, err |-> ErrEOF], [n |-> ShortN, err |-> ErrEOF],
              [n |-> BufLen, err |-> NoErr]}

VARIABLES
  now,      \* the clock read by time.Now()
  conn,     \* the underlying net.Conn: calls received and results given
  newRes,   \* arguments and results of the call of New
  rlc,      \* the RateLimitedConn value the caller of Read, of the setters
            \* and of Close holds, Nil if none
  wlc,      \* the RateLimitedConn value the caller of Write holds
  pipe,     \* the transfer of the connection test, NoPipe outside it
  rd,       \* frame of the caller driving Read
  wr,       \* frame of the caller driving Write
  setRes,   \* last SetReadLimit/SetWriteLimit call: arguments, result, frame
  closeRes, \* last Close call: result and number of calls
  hist      \* what the callers asked for so far (limits set, transfer runs)

vars ==
  <<now, conn, newRes, rlc, wlc, pipe, rd, wr, setRes, closeRes, hist>>

\* ------------------------------------------------------------ net.go code

\* type RateLimitedConn struct
RateLimitedConn(c, r, w, rt, wt) ==
  [Conn |-> c, rlim |-> r, wlim |-> w, rtime |-> rt, wtime |-> wt]

\* the nil net.Conn New returns on failure (no wrapper)
Nil == RateLimitedConn("absent", 0, 0, ZeroTime, ZeroTime)

\* New with the two checks joined by "and"
NewBothNegative(c, readLimit, writeLimit) ==
  IF readLimit < 0 /\ writeLimit < 0
  THEN [rlc |-> Nil, err |-> ErrLimits]
  ELSE [rlc |-> RateLimitedConn(c, readLimit, writeLimit, ZeroTime, ZeroTime),
        err |-> NoErr]

\* func New
New(c, readLimit, writeLimit) ==
  IF readLimit < 0 \/ writeLimit < 0
  THEN [rlc |-> Nil, err |-> ErrLimits]
  ELSE [rlc |-> RateLimitedConn(c, readLimit, writeLimit, ZeroTime, ZeroTime),
        err |-> NoErr]

\* Read taking the fast path for negative limits only
ReadFastNegative(r) == r.rlim < 0

\* Read: "fast path if there is no limit"
ReadFast(r) == r.rlim <= 0

\* Read: "lazy initialization"
ReadInit(r, t) == IF r.rtime = ZeroTime THEN [r EXCEPT !.rtime = t] ELSE r

\* Read sleeping the whole allowed time, whatever time has elapsed
ReadSleepWhole(r, n, t) ==
  LET d == t - r.rtime
      timePerByte == Second \div r.rlim
      timeForNBytes == timePerByte * n
  IN IF n > 0 /\ d < timeForNBytes THEN timeForNBytes ELSE 0

\* Read measuring the elapsed time from the write timestamp
ReadSleepFromWtime(r, n, t) ==
  LET d == t - r.wtime
      timePerByte == Second \div r.rlim
      timeForNBytes == timePerByte * n
  IN IF n > 0 /\ d < timeForNBytes THEN timeForNBytes - d ELSE 0

\* Read measuring the elapsed time backwards
ReadSleepReversed(r, n, t) ==
  LET d == r.rtime - t
      timePerByte == Second \div r.rlim
      timeForNBytes == timePerByte * n
  IN IF n > 0 /\ d < timeForNBytes THEN timeForNBytes - d ELSE 0

\* Read rounding the time per byte up instead of toward zero
ReadSleepCeil(r, n, t) ==
  LET d == t - r.rtime
      timePerByte == Second \div r.rlim + 1
      timeForNBytes == timePerByte * n
  IN IF n > 0 /\ d < timeForNBytes THEN timeForNBytes - d ELSE 0

\* Read taking the time of one byte as the allowed time of n bytes
ReadSleepPerByte(r, n, t) ==
  LET d == t - r.rtime
      timePerByte == Second \div r.rlim
      timeForNBytes == timePerByte
  IN IF n > 0 /\ d < timeForNBytes THEN timeForNBytes - d ELSE 0

\* Read sleeping whenever bytes were moved, elapsed time allowing or not
ReadSleepAlways(r, n, t) ==
  LET d == t - r.rtime
      timePerByte == Second \div r.rlim
      timeForNBytes == timePerByte * n
  IN IF n > 0 THEN timeForNBytes ELSE 0

\* Read: elapsed time, allowed time, and the duration slept (0: no sleep)
ReadSleep(r, n, t) ==
  LET d == t - r.rtime
      timePerByte == Second \div r.rlim
      timeForNBytes == timePerByte * n
  IN IF n > 0 /\ d < timeForNBytes THEN timeForNBytes - d ELSE 0

\* Read recording its time in the write timestamp as well
ReadDoneBoth(r, t) == [r EXCEPT !.rtime = t, !.wtime = t]

\* Read: "remember when last read finished"
ReadDone(r, t) == [r EXCEPT !.rtime = t]

\* Read dropping the error of a call that moved bytes
ReadResultMasked(f) == [n |-> f.n, err |-> IF f.n > 0 THEN NoErr ELSE f.err]

\* Read: the named results (n, err) at return
ReadResult(f) == [n |-> f.n, err |-> f.err]

\* Write: "fast path if there is no limit"
WriteFastNegative(r) == r.wlim < 0

WriteFast(r) == r.wlim <= 0

\* Write: "lazy initialization"
WriteInit(r, t) == IF r.wtime = ZeroTime THEN [r EXCEPT !.wtime = t] ELSE r

\* Write measuring the elapsed time from the read timestamp
WriteSleepFromRtime(r, n, t) ==
  LET d == t - r.rtime
      timePerByte == Second \div r.wlim
      timeForNBytes == timePerByte * n
  IN IF n > 0 /\ d < timeForNBytes THEN timeForNBytes - d ELSE 0

\* Write with the comparison of elapsed and allowed time inverted
WriteSleepInverted(r, n, t) ==
  LET d == t - r.wtime
      timePerByte == Second \div r.wlim
      timeForNBytes == timePerByte * n
  IN IF n > 0 /\ d > timeForNBytes THEN timeForNBytes - d ELSE 0

\* Write: elapsed time, allowed time, and the duration slept (0: no sleep)
WriteSleep(r, n, t) ==
  LET d == t - r.wtime
      timePerByte == Second \div r.wlim
      timeForNBytes == timePerByte * n
  IN IF n > 0 /\ d < timeForNBytes THEN timeForNBytes - d ELSE 0

\* Write: "remember when last write finished"
WriteDone(r, t) == [r EXCEPT !.wtime = t]

\* Write: the named results (n, err) at return
WriteResult(f) == [n |-> f.n, err |-> f.err]

\* SetReadLimit without the check of lim
SetReadLimitUnchecked(r, lim) ==
  [rcv |-> [r EXCEPT !.rlim = lim], err |-> NoErr]

\* SetReadLimit stamping the read timestamp along with the limit
SetReadLimitStamps(r, lim) ==
  IF lim < 0 THEN [rcv |-> r, err |-> ErrRead]
  ELSE [rcv |-> [r EXCEPT !.rlim = lim, !.rtime = 0], err |-> NoErr]

\* func SetReadLimit: the receiver copy after the call, and the error
SetReadLimit(r, lim) ==
  IF lim < 0 THEN [rcv |-> r, err |-> ErrRead]
  ELSE [rcv |-> [r EXCEPT !.rlim = lim], err |-> NoErr]

\* SetWriteLimit storing a negative lim as 0
SetWriteLimitClamped(r, lim) ==
  [rcv |-> [r EXCEPT !.wlim = IF lim < 0 THEN 0 ELSE lim], err |-> NoErr]

\* func SetWriteLimit: the receiver copy after the call, and the error
SetWriteLimit(r, lim) ==
  IF lim < 0 THEN [rcv |-> r, err |-> ErrWrite]
  ELSE [rcv |-> [r EXCEPT !.wlim = lim], err |-> NoErr]

\* Close forwarded twice
CloseTwice(c) == [c EXCEPT !.closes = @ + 2, !.cres = NoErr]

\* Close is promoted from the embedded net.Conn: what one call of the
\* wrapper's Close does to the underlying connection c
Close(c) ==
  [c EXCEPT !.closes = @ + 1,
            !.cres = IF c.closes > 0 THEN ErrClosed ELSE NoErr]

\* ------------------------------------------------------------------ state

NoRcv == RateLimitedConn(NilConn, 0, 0, ZeroTime, ZeroTime)
NoRes == [n |-> 0, err |-> NoErr]

\* a transfer run of one direction: the time the first call was entered, the
\* bytes moved, whether every call so far was entered when the one before
\* returned and had its underlying operation take less than its allowed time
NoRun == [ops |-> 0, start |-> 0, bytes |-> 0, ok |-> TRUE]

\* the transfer of testConnection/testClient: npack packets of lpack bytes,
\* the bytes written and not yet read, the bytes read so far
NoPipe == [npack |-> 0, lpack |-> 0, avail |-> 0, got |-> 0]

Frame ==
  [pc |-> "idle", rcv |-> NoRcv, len |-> 0, n |-> 0, err |-> NoErr,
   ret |-> NoRes, t0 |-> 0, t |-> 0, d |-> 0, wake |-> 0, slept |-> 0,
   tret |-> 0,
   calls |-> 0, fresh |-> FALSE, set |-> NoSet, run |-> NoRun]

Init ==
  /\ now = 0
  /\ conn = [reads |-> 0, writes |-> 0, closes |-> 0,
             rres |-> NoRes, wres |-> NoRes, cres |-> NoErr]
  /\ newRes = [called |-> FALSE, conn |-> NilConn, readLimit |-> 0,
               writeLimit |-> 0, err |-> NoErr, rlc |-> Nil]
  /\ rlc = Nil
  /\ wlc = Nil
  /\ pipe = NoPipe
  /\ rd = Frame
  /\ wr = Frame
  /\ setRes = [op |-> "none", lim |-> 0, err |-> NoErr, rcv |-> Nil,
               before |-> Nil]
  /\ closeRes = [err |-> NoErr, calls |-> 0]
  /\ hist = [rset |-> NoSet, wset |-> NoSet, sets |-> 0]

\* the calls of the wrapper's methods made so far
Calls == rd.calls + wr.calls + hist.sets + closeRes.calls

Panicked == rd.pc = "panic" \/ wr.pc = "panic" \/ closeRes.err = "panic"
Live == rlc # Nil /\ ~Panicked

\* rlc, err := New(c, r, w)
CallNew ==
  /\ ~newRes.called
  /\ \E c \in ConnVals, r \in LimitVals, w \in LimitVals :
       /\ newRes' = [called |-> TRUE, conn |-> c,
                     readLimit |-> r, writeLimit |-> w,
                     err |-> New(c, r, w).err, rlc |-> New(c, r, w).rlc]
       /\ rlc' = New(c, r, w).rlc
       /\ wlc' = New(c, r, w).rlc
  /\ UNCHANGED <<now, conn, pipe, rd, wr, setRes, closeRes, hist>>

\* the allowed time of n bytes under limit lim > 0
Allowed(lim, n) == (Second \div lim) * n

\* bookkeeping of a transfer run at the entry of a call
RunEnter(f) ==
  IF f.run.ops = 0 THEN [f.run EXCEPT !.start = now, !.ops = 1]
  ELSE [f.run EXCEPT !.ops = @ + 1, !.ok = @ /\ now = f.tret]

\* bookkeeping of a transfer run when the underlying operation completes
RunIO(f, lim, n) ==
  [f.run EXCEPT !.bytes = @ + n,
                !.ok = @ /\ lim > 0 /\ now - f.t0 < Allowed(lim, n)]

\* n, err = rlc.Read(b) is entered: lines 46-59, up to the underlying call
ReadCall(len) ==
  /\ Live
  /\ rd.pc = "idle"
  /\ LET r == rlc IN
       IF r.Conn = NilConn
       THEN /\ rd' = [rd EXCEPT !.pc = "panic", !.calls = @ + 1]
            /\ UNCHANGED conn
       ELSE /\ rd' = [rd EXCEPT
                 !.pc = "io", !.len = len, !.t0 = now, !.calls = @ + 1,
                 !.rcv = IF ReadFast(r) THEN r ELSE ReadInit(r, now),
                 !.fresh = (r.rtime = ZeroTime),
                 !.set = hist.rset, !.run = RunEnter(rd)]
            /\ conn' = [conn EXCEPT !.reads = @ + 1]
  /\ UNCHANGED <<now, newRes, rlc, wlc, pipe, wr, setRes, closeRes, hist>>

\* the rest of Read once the underlying Read has returned res
ReadAfter(res) ==
  LET f == [rd EXCEPT !.n = res.n, !.err = res.err, !.t = now,
                      !.run = RunIO(rd, rd.rcv.rlim, res.n)]
  IN IF ReadFast(rd.rcv)
     THEN rd' = [f EXCEPT !.pc = "idle", !.slept = 0, !.tret = now,
                          !.ret = ReadResult(f)]
     ELSE LET s == ReadSleep(rd.rcv, res.n, now) IN
          IF s > 0
          THEN rd' = [f EXCEPT !.pc = "sleep", !.wake = now + s,
                               !.d = now - rd.rcv.rtime]
          ELSE rd' = [f EXCEPT !.pc = "idle", !.slept = 0, !.tret = now,
                               !.d = now - rd.rcv.rtime,
                               !.rcv = ReadDone(rd.rcv, now),
                               !.ret = ReadResult(f)]

\* the underlying Read is called again after a short count
ReadIORetry ==
  /\ rd.pc = "io"
  /\ \E r \in IOResults :
       /\ r.n <= rd.len
       /\ LET res == IF conn.closes > 0 THEN [n |-> 0, err |-> ErrClosed]
                     ELSE r
          IN /\ conn' = [conn EXCEPT !.rres = res,
                           !.reads = @ + (IF res.n < rd.len THEN 1 ELSE 0)]
             /\ ReadAfter(res)
  /\ UNCHANGED <<now, newRes, rlc, wlc, pipe, wr, setRes, closeRes, hist>>

\* the underlying Read returns (n, err)
ReadIO ==
  /\ rd.pc = "io"
  /\ \E r \in IOResults :
       /\ r.n <= rd.len
       /\ LET res == IF conn.closes > 0 THEN [n |-> 0, err |-> ErrClosed]
                     ELSE r
          IN /\ conn' = [conn EXCEPT !.rres = res]
             /\ ReadAfter(res)
  /\ UNCHANGED <<now, newRes, rlc, wlc, pipe, wr, setRes, closeRes, hist>>

\* time.Sleep returns: lines 75-76
ReadWake ==
  /\ rd.pc = "sleep"
  /\ now = rd.wake
  /\ rd' = [rd EXCEPT !.pc = "idle", !.slept = rd.wake - rd.t, !.tret = now,
                      !.rcv = ReadDone(rd.rcv, rd.t),
                      !.ret = ReadResult(rd)]
  /\ UNCHANGED <<now, conn, newRes, rlc, wlc, pipe, wr, setRes, closeRes,
                 hist>>

\* n, err = rlc.Write(b) is entered: lines 82-95, up to the underlying call
WriteCall(len) ==
  /\ Live
  /\ wr.pc = "idle"
  /\ LET r == wlc IN
       IF r.Conn = NilConn
       THEN /\ wr' = [wr EXCEPT !.pc = "panic", !.calls = @ + 1]
            /\ UNCHANGED conn
       ELSE /\ wr' = [wr EXCEPT
                 !.pc = "io", !.len = len, !.t0 = now, !.calls = @ + 1,
                 !.rcv = IF WriteFast(r) THEN r ELSE WriteInit(r, now),
                 !.fresh = (r.wtime = ZeroTime),
                 !.set = hist.wset, !.run = RunEnter(wr)]
            /\ conn' = [conn EXCEPT !.writes = @ + 1]
  /\ UNCHANGED <<now, newRes, rlc, wlc, pipe, rd, setRes, closeRes, hist>>

\* the rest of Write once the underlying Write has returned res
WriteAfter(res) ==
  LET f == [wr EXCEPT !.n = res.n, !.err = res.err, !.t = now,
                      !.run = RunIO(wr, wr.rcv.wlim, res.n)]
  IN IF WriteFast(wr.rcv)
     THEN wr' = [f EXCEPT !.pc = "idle", !.slept = 0, !.tret = now,
                          !.ret = WriteResult(f)]
     ELSE LET s == WriteSleep(wr.rcv, res.n, now) IN
          IF s > 0
          THEN wr' = [f EXCEPT !.pc = "sleep", !.wake = now + s,
                               !.d = now - wr.rcv.wtime]
          ELSE wr' = [f EXCEPT !.pc = "idle", !.slept = 0, !.tret = now,
                               !.d = now - wr.rcv.wtime,
                               !.rcv = WriteDone(wr.rcv, now),
                               !.ret = WriteResult(f)]

\* the underlying Write returns (n, err)
WriteIO ==
  /\ wr.pc = "io"
  /\ \E r \in IOResults :
       /\ r.n <= wr.len
       /\ LET res == IF conn.closes > 0 THEN [n |-> 0, err |-> ErrClosed]
                     ELSE r
          IN /\ conn' = [conn EXCEPT !.wres = res]
             /\ WriteAfter(res)
  /\ UNCHANGED <<now, newRes, rlc, wlc, pipe, rd, setRes, closeRes, hist>>

\* time.Sleep returns: lines 111-112
WriteWake ==
  /\ wr.pc = "sleep"
  /\ now = wr.wake
  /\ wr' = [wr EXCEPT !.pc = "idle", !.slept = wr.wake - wr.t, !.tret = now,
                      !.rcv = WriteDone(wr.rcv, wr.t),
                      !.ret = WriteResult(wr)]
  /\ UNCHANGED <<now, conn, newRes, rlc, wlc, pipe, rd, setRes, closeRes,
                 hist>>

\* err = rlc.SetReadLimit(lim)
CallSetReadLimit ==
  /\ Live
  /\ Calls < MaxCalls
  /\ \E lim \in SetVals :
       LET res == SetReadLimit(rlc, lim) IN
         /\ setRes' = [op |-> "r", lim |-> lim, err |-> res.err,
                       rcv |-> res.rcv, before |-> rlc]
         /\ hist' = [hist EXCEPT !.sets = @ + 1,
                       !.rset = IF res.err = NoErr THEN lim ELSE @]
  /\ UNCHANGED <<now, conn, newRes, rlc, wlc, pipe, rd, wr, closeRes>>

\* err = rlc.SetWriteLimit(lim)
CallSetWriteLimit ==
  /\ Live
  /\ Calls < MaxCalls
  /\ \E lim \in SetVals :
       LET res == SetWriteLimit(rlc, lim) IN
         /\ setRes' = [op |-> "w", lim |-> lim, err |-> res.err,
                       rcv |-> res.rcv, before |-> rlc]
         /\ hist' = [hist EXCEPT !.sets = @ + 1,
                       !.wset = IF res.err = NoErr THEN lim ELSE @]
  /\ UNCHANGED <<now, conn, newRes, rlc, wlc, pipe, rd, wr, closeRes>>

\* err = rlc.Close(), promoted from the embedded net.Conn
CallClose ==
  /\ Live
  /\ Calls < MaxCalls
  /\ IF rlc.Conn = NilConn
     THEN /\ closeRes' = [err |-> "panic", calls |-> closeRes.calls + 1]
          /\ UNCHANGED conn
     ELSE /\ conn' = Close(conn)
          /\ closeRes' = [err |-> Close(conn).cres,
                          calls |-> closeRes.calls + 1]
  /\ UNCHANGED <<now, newRes, rlc, wlc, pipe, rd, wr, setRes, hist>>

\* the wake-up times of the callers that are in time.Sleep
Wakes == (IF rd.pc = "sleep" THEN {rd.wake} ELSE {})
           \cup (IF wr.pc = "sleep" THEN {wr.wake} ELSE {})

\* the clock advances by a tick; a sleeper is not overslept
ClockTick ==
  /\ ~Panicked
  /\ now + Tick <= MaxTicks * Tick
  /\ \A w \in Wakes : now + Tick <= w
  /\ now' = now + Tick
  /\ UNCHANGED <<conn, newRes, rlc, wlc, pipe, rd, wr, setRes, closeRes,
                 hist>>

\* the clock advances to the next wake-up time
ClockWake ==
  /\ ~Panicked
  /\ Wakes # {}
  /\ \E w \in Wakes :
       /\ \A v \in Wakes : w <= v
       /\ w > now
       /\ now' = w
  /\ UNCHANGED <<conn, newRes, rlc, wlc, pipe, rd, wr, setRes, closeRes,
                 hist>>

EnvReadCall == Calls < MaxCalls /\ ReadCall(BufLen)
EnvWriteCall == Calls < MaxCalls /\ WriteCall(BufLen)

Next ==
  \/ CallNew
  \/ EnvReadCall
  \/ ReadIO
  \/ ReadWake
  \/ EnvWriteCall
  \/ WriteIO
  \/ WriteWake
  \/ CallSetReadLimit
  \/ CallSetWriteLimit
  \/ CallClose
  \/ ClockTick
  \/ ClockWake

Spec == Init /\ [][Next]_vars

\* ------------------------------------------- the connection test, part_000
\* A client wraps its end with a write limit and writes npack packets of
\* lpack bytes back to back; the server wraps its end with a read limit and
\* reads them all with io.ReadFull.  The transport is idealised: a Write
\* returns at once, a Read returns as soon as a byte is there, statements take
\* no time and time.Sleep sleeps exactly as long as asked.

\* the (rlim, wlim) of the test cases with both limits
PipeLimits == {<<2048, 4096>>, <<4096, 2048>>}

InitPipe ==
  /\ now = 0
  /\ conn = [reads |-> 0, writes |-> 0, closes |-> 0,
             rres |-> NoRes, wres |-> NoRes, cres |-> NoErr]
  /\ newRes = [called |-> FALSE, conn |-> NilConn, readLimit |-> 0,
               writeLimit |-> 0, err |-> NoErr, rlc |-> Nil]
  /\ \E l \in PipeLimits, k \in 1..MaxPack :
       /\ rlc = New(Stream, l[1], 0).rlc
       /\ wlc = New(Stream, 0, l[2]).rlc
       /\ pipe = [npack |-> k, lpack |-> LPack, avail |-> 0, got |-> 0]
  /\ rd = Frame
  /\ wr = Frame
  /\ setRes = [op |-> "none", lim |-> 0, err |-> NoErr, rcv |-> Nil,
               before |-> Nil]
  /\ closeRes = [err |-> NoErr, calls |-> 0]
  /\ hist = [rset |-> NoSet, wset |-> NoSet, sets |-> 0]

\* testClient: the next rlc.Write(data) of the loop
PipeWriteCall ==
  /\ wr.calls < pipe.npack
  /\ WriteCall(pipe.lpack)

\* the client's underlying Write returns (len(b), nil) at once
PipeWriteIO ==
  /\ wr.pc = "io"
  /\ LET res == [n |-> wr.len, err |-> NoErr] IN
       /\ conn' = [conn EXCEPT !.wres = res]
       /\ pipe' = [pipe EXCEPT !.avail = @ + res.n]
       /\ WriteAfter(res)
  /\ UNCHANGED <<now, newRes, rlc, wlc, rd, setRes, closeRes, hist>>

\* testConnection: io.ReadFull(rlc, buf) calls Read on the rest of buf
PipeReadCall ==
  /\ pipe.got < pipe.npack * pipe.lpack
  /\ ReadCall(pipe.npack * pipe.lpack - pipe.got)

\* the server's underlying Read returns the bytes that are there
PipeReadIO ==
  /\ rd.pc = "io"
  /\ pipe.avail > 0
  /\ LET res == [n |-> IF pipe.avail < rd.len THEN pipe.avail ELSE rd.len,
                 err |-> NoErr] IN
       /\ conn' = [conn EXCEPT !.rres = res]
       /\ pipe' = [pipe EXCEPT !.avail = @ - res.n, !.got = @ + res.n]
       /\ ReadAfter(res)
  /\ UNCHANGED <<now, newRes, rlc, wlc, wr, setRes, closeRes, hist>>

\* a caller can take a step without time passing
PipeBusy ==
  \/ ENABLED PipeWriteCall
  \/ ENABLED PipeWriteIO
  \/ ENABLED WriteWake
  \/ ENABLED PipeReadCall
  \/ ENABLED PipeReadIO
  \/ ENABLED ReadWake

\* time passes, up to the next wake-up, when every caller sleeps or blocks
PipeClock == ~PipeBusy /\ ClockWake

NextPipe ==
  \/ PipeWriteCall
  \/ PipeWriteIO
  \/ WriteWake
  \/ PipeReadCall
  \/ PipeReadIO
  \/ ReadWake
  \/ PipeClock

SpecPipe == InitPipe /\ [][NextPipe]_vars

\* ----------------------------------------------------------------- claims

\* C1: New succeeds, storing the connection and both limits, for every pair of
\* non-negative limits; with a negative limit it returns an error and no
\* wrapper; this holds for a nil conn too, and the call of New makes no call
\* on the underlying connection.
C1_NewValidates ==
  /\ [](newRes.called =>
         /\ (newRes.readLimit >= 0 /\ newRes.writeLimit >= 0) =>
              /\ newRes.err = NoErr
              /\ newRes.rlc = RateLimitedConn(newRes.conn, newRes.readLimit,
                                   newRes.writeLimit, ZeroTime, ZeroTime)
         /\ (newRes.readLimit < 0 \/ newRes.writeLimit < 0) =>
              (newRes.err # NoErr /\ newRes.rlc = Nil)
         /\ rlc = newRes.rlc /\ wlc = newRes.rlc)
  /\ [][(~newRes.called /\ newRes'.called) => conn' = conn]_vars

\* C1 witness: New(nil, r, w) with exactly one negative limit has failed
C1_Witness ==
  /\ newRes.called /\ newRes.conn = NilConn /\ newRes.err = ErrLimits
  /\ newRes.readLimit >= 0 /\ newRes.writeLimit < 0 /\ rlc = Nil

\* C2: when a Read or Write call has returned, the pair (n, err) it returned is
\* the pair the underlying Read/Write returned for that call, and the
\* underlying operation was called once per call of the wrapper.
C2_PassThrough ==
  /\ (rd.pc = "idle" /\ rd.calls > 0) =>
        (rd.ret = conn.rres /\ conn.reads = rd.calls)
  /\ (wr.pc = "idle" /\ wr.calls > 0) =>
        (wr.ret = conn.wres /\ conn.writes = wr.calls)

\* C2 witness: a throttled Read slept and returned a short count with EOF
C2_Witness ==
  /\ rd.pc = "idle" /\ rd.calls > 0 /\ rd.slept > 0
  /\ rd.ret = [n |-> ShortN, err |-> ErrEOF]

\* C4: a Read (Write) made while the limit of its direction is 0 calls the
\* underlying operation, never sleeps and returns when the underlying
\* operation returns, and leaves the timestamp of the direction unset.
C4_UnlimitedFastPath ==
  /\ (rd.pc \in {"io", "sleep", "idle"} /\ rd.calls > 0 /\ rd.rcv.rlim = 0) =>
        /\ rd.pc # "sleep"
        /\ rd.rcv.rtime = ZeroTime /\ rlc.rtime = ZeroTime
        /\ conn.reads = rd.calls
        /\ rd.pc = "idle" => (rd.slept = 0 /\ rd.tret = rd.t)
  /\ (wr.pc \in {"io", "sleep", "idle"} /\ wr.calls > 0 /\ wr.rcv.wlim = 0) =>
        /\ wr.pc # "sleep"
        /\ wr.rcv.wtime = ZeroTime /\ wlc.wtime = ZeroTime
        /\ conn.writes = wr.calls
        /\ wr.pc = "idle" => (wr.slept = 0 /\ wr.tret = wr.t)

\* C4 witness: two unlimited Reads of a full buffer have returned
C4_Witness ==
  /\ rd.pc = "idle" /\ rd.calls = 2 /\ rd.rcv.rlim = 0
  /\ rd.ret.n = BufLen /\ rd.run.bytes = 2 * BufLen

\* C5: SetReadLimit(lim) and SetWriteLimit(lim) with lim < 0 return an error
\* and leave both limits and both timestamps as they were, in the receiver
\* and in the value the caller holds.
C5_NegativeSetRejected ==
  (setRes.op # "none" /\ setRes.lim < 0) =>
    /\ setRes.err # NoErr
    /\ setRes.rcv = setRes.before
    /\ rlc = setRes.before /\ wlc = setRes.before

\* C5 witness: SetReadLimit(-1) has failed on a wrapper with a read limit
C5_Witness ==
  /\ setRes.op = "r" /\ setRes.lim < 0 /\ setRes.err = ErrRead
  /\ rlc.rlim > 0

\* greatest common divisor
RECURSIVE GCD(_, _)
GCD(a, b) == IF b = 0 THEN a ELSE GCD(b, a % b)

\* B / L seconds in whole nanoseconds, floor(B * 10^9 / L), computed as
\* B * q + floor(B * r / L) with 10^9 = q * L + r and r / L in lowest terms
Expected(B, L) ==
  LET q == Second \div L
      r == Second % L
      g == GCD(L, r)
  IN B * q + (B * (r \div g)) \div (L \div g)

\* a is within 20% of e
Within20(a, e) == (IF a >= e THEN a - e ELSE e - a) <= e \div 5

\* a transfer run of back-to-back calls, each with an underlying operation
\* shorter than its allowed time, has just ended with B > 0 bytes moved
RunEnded(f, L) ==
  f.pc = "idle" /\ f.run.ops > 0 /\ f.run.ok /\ L > 0 /\ f.run.bytes > 0

\* C3 as stated: such a run under any positive limit L takes a total time
\* within 20% of B / L seconds.
C3_AnyLimitWithin20 ==
  /\ RunEnded(rd, rd.rcv.rlim) =>
        Within20(rd.tret - rd.run.start, Expected(rd.run.bytes, rd.rcv.rlim))
  /\ RunEnded(wr, wr.rcv.wlim) =>
        Within20(wr.tret - wr.run.start, Expected(wr.run.bytes, wr.rcv.wlim))

\* C3 amended: such a run takes exactly floor(10^9 / L) * B nanoseconds, which
\* is within 20% of B / L seconds when floor(10^9 / L) >= 4, that is for
\* L <= 250,000,000.
C3_RunTakesAllowedTime ==
  /\ RunEnded(rd, rd.rcv.rlim) =>
        /\ rd.tret - rd.run.start = Allowed(rd.rcv.rlim, rd.run.bytes)
        /\ Second \div rd.rcv.rlim >= 4 =>
             Within20(rd.tret - rd.run.start,
                      Expected(rd.run.bytes, rd.rcv.rlim))
  /\ RunEnded(wr, wr.rcv.wlim) =>
        /\ wr.tret - wr.run.start = Allowed(wr.rcv.wlim, wr.run.bytes)
        /\ Second \div wr.rcv.wlim >= 4 =>
             Within20(wr.tret - wr.run.start,
                      Expected(wr.run.bytes, wr.rcv.wlim))

\* C3 witness: two back-to-back Reads under limit 4096, of a short count and
\* of a full buffer, the second with an underlying Read that took a tick,
\* have returned
C3_Witness ==
  /\ RunEnded(rd, rd.rcv.rlim) /\ rd.rcv.rlim = 4096
  /\ rd.run.ops = 2 /\ rd.run.bytes = ShortN + BufLen /\ rd.n = BufLen
  /\ rd.t > rd.t0

\* C6 as stated: SetReadLimit(lim) and SetWriteLimit(lim) succeed for
\* lim >= 0, and a Read (Write) entered after a successful call runs with the
\* limit that was set last.
C6_SetLimitApplies ==
  /\ (setRes.op # "none" /\ setRes.lim >= 0) => setRes.err = NoErr
  /\ (rd.pc \in {"io", "sleep", "idle"} /\ rd.calls > 0 /\ rd.set # NoSet) =>
        rd.rcv.rlim = rd.set
  /\ (wr.pc \in {"io", "sleep", "idle"} /\ wr.calls > 0 /\ wr.set # NoSet) =>
        wr.rcv.wlim = wr.set

\* a first call on a direction with a positive limit and an unset timestamp
FirstLimited(f, L) ==
  f.pc \in {"io", "sleep", "idle"} /\ f.calls > 0 /\ f.fresh /\ L > 0

\* C7 as stated: the first Read (Write) on a direction with a positive limit
\* and an unset timestamp never sleeps.
C7_FirstNeverSleeps ==
  /\ FirstLimited(rd, rd.rcv.rlim) =>
        (rd.pc # "sleep" /\ (rd.pc = "idle" => rd.slept = 0))
  /\ FirstLimited(wr, wr.rcv.wlim) =>
        (wr.pc # "sleep" /\ (wr.pc = "idle" => wr.slept = 0))

\* the sleep of a call that measures the elapsed time from its own entry
SleepsFromEntry(f, L) ==
  LET short == f.n > 0 /\ f.t - f.t0 < Allowed(L, f.n) IN
  /\ f.pc = "sleep" => (short /\ f.wake = f.t0 + Allowed(L, f.n))
  /\ f.pc = "idle" =>
        /\ f.slept > 0 <=> short
        /\ f.slept > 0 => f.tret = f.t0 + Allowed(L, f.n)
        /\ f.slept = 0 => f.tret = f.t

\* C7 amended: the first Read (Write) on a direction with a positive limit L
\* and an unset timestamp takes its own entry as the baseline: it sleeps
\* exactly when it moved n > 0 bytes and the underlying operation took less
\* than floor(10^9 / L) * n ns, and then returns that long after its entry; it
\* does not sleep when n = 0 or the underlying operation took at least as long.
C7_FirstSleepsFromEntry ==
  /\ FirstLimited(rd, rd.rcv.rlim) => SleepsFromEntry(rd, rd.rcv.rlim)
  /\ FirstLimited(wr, wr.rcv.wlim) => SleepsFromEntry(wr, wr.rcv.wlim)

\* C7 witness: the first Read of a wrapper with a read limit has slept after
\* an underlying Read that took a tick
C7_Witness ==
  /\ FirstLimited(rd, rd.rcv.rlim) /\ rd.calls = 1 /\ rd.pc = "idle"
  /\ rd.slept > 0 /\ rd.t > rd.t0

\* C9: with one caller in Read and another in Write on the same wrapper, a
\* sleeping caller does not block the other direction (the other caller can
\* enter its call, have the underlying operation return, and return), and
\* the sleep of a call is computed from that call's own entry time, limit
\* and byte count whatever the other caller did meanwhile.
C9_DirectionsIndependent ==
  /\ (rd.pc = "sleep" /\ wr.pc = "idle" /\ Calls < MaxCalls) =>
        ENABLED EnvWriteCall
  /\ (rd.pc = "sleep" /\ wr.pc = "io") => ENABLED WriteIO
  /\ (wr.pc = "sleep" /\ rd.pc = "idle" /\ Calls < MaxCalls) =>
        ENABLED EnvReadCall
  /\ (wr.pc = "sleep" /\ rd.pc = "io") => ENABLED ReadIO
  /\ rd.pc = "sleep" => rd.wake = rd.t0 + Allowed(rd.rcv.rlim, rd.n)
  /\ wr.pc = "sleep" => wr.wake = wr.t0 + Allowed(wr.rcv.wlim, wr.n)

\* C9 witness: while the reader sleeps, a Write was entered after the sleep
\* began, slept itself and returned
C9_Witness ==
  /\ rd.pc = "sleep" /\ now < rd.wake
  /\ wr.pc = "idle" /\ wr.calls > 0 /\ wr.t0 > rd.t /\ wr.slept > 0

\* C10: each call of Close on the wrapper calls the underlying Close once and
\* returns its result; the call takes no time, sleeps nowhere and is
\* possible whatever the limits and timestamps are.
C10_CloseForwardsOnce ==
  /\ [](rlc.Conn = Stream =>
         /\ conn.closes = closeRes.calls
         /\ closeRes.err = conn.cres
         /\ (Live /\ Calls < MaxCalls) => ENABLED CallClose)
  /\ [][(closeRes'.calls # closeRes.calls /\ rlc.Conn = Stream) =>
          /\ conn'.closes = conn.closes + 1
          /\ now' = now /\ rlc' = rlc /\ wlc' = wlc
          /\ rd' = rd /\ wr' = wr]_vars

\* C10 witness: Close was called, and has returned, on a wrapper with a read
\* limit while the reader sleeps
C10_Witness ==
  /\ closeRes.calls = 1 /\ conn.closes = 1 /\ closeRes.err = NoErr
  /\ rlc.rlim > 0 /\ rd.pc = "sleep" /\ now < rd.wake

\* the smaller and the larger of two numbers
Min(a, b) == IF a <= b THEN a ELSE b
Max(a, b) == IF a >= b THEN a ELSE b

\* io.ReadFull has returned with all the bytes of the transfer
PipeDone ==
  pipe.npack > 0 /\ pipe.got = pipe.npack * pipe.lpack /\ rd.pc = "idle"

\* the time from the entry of the server's first Read to the return of its last
PipeTime == rd.tret - rd.run.start

\* C8 as stated: the server receives all B bytes in a time within 20% of
\* B / min(R, W) seconds.
C8_PipeWithin20 ==
  PipeDone =>
    Within20(PipeTime, Expected(pipe.got, Min(rlc.rlim, wlc.wlim)))

\* C8 amended: for k packets of p bytes, B = k * p, the server's time T is at
\* least floor(10^9 / R) * B and at least the (k - 1) * floor(10^9 / W) * p the
\* client takes to reach its last Write, and at most the larger of
\* floor(10^9 / R) * B and k * floor(10^9 / W) * p; with the limits 2048 and
\* 4096 of the tests T is within 20% of B / min(R, W) when k >= 8.
C8_PipeBoundedBySlower ==
  PipeDone =>
    LET B == pipe.got
        k == pipe.npack
        aW == Allowed(wlc.wlim, pipe.lpack)
    IN /\ PipeTime >= Allowed(rlc.rlim, B)
       /\ PipeTime >= (k - 1) * aW
       /\ PipeTime <= Max(Allowed(rlc.rlim, B), k * aW)
       /\ k >= 8 => Within20(PipeTime, Expected(B, Min(rlc.rlim, wlc.wlim)))

\* C8 witness: 8 packets went from a client with W = 2048 to a server with
\* R = 4096, the server waiting for the client
C8_Witness ==
  /\ PipeDone /\ pipe.npack = 8 /\ rlc.rlim = 4096 /\ wlc.wlim = 2048
  /\ rd.calls = 8 /\ rd.t > rd.t0

\* a call of Read (Write) that got as far as calling the underlying operation
Entered(f) == f.pc \in {"io", "sleep", "idle"} /\ f.calls > 0

\* the sleep the code computes from the elapsed time d, the limit L and n
SleepFor(d, L, n) ==
  IF n > 0 /\ d < Allowed(L, n) THEN Allowed(L, n) - d ELSE 0

\* C11: whatever calls were made, the limits of the wrapper and of every
\* receiver are >= 0; a negative limit is refused with an error, by New with
\* no wrapper and by the setters with the limits as they were, and is never
\* stored as 0 or any other value.
C11_LimitsNonNegative ==
  /\ rlc.rlim >= 0 /\ rlc.wlim >= 0 /\ wlc.rlim >= 0 /\ wlc.wlim >= 0
  /\ rd.rcv.rlim >= 0 /\ rd.rcv.wlim >= 0
  /\ wr.rcv.rlim >= 0 /\ wr.rcv.wlim >= 0
  /\ setRes.rcv.rlim >= 0 /\ setRes.rcv.wlim >= 0
  /\ (newRes.called /\ (newRes.readLimit < 0 \/ newRes.writeLimit < 0)) =>
        (rlc = Nil /\ newRes.err = ErrLimits)
  /\ (setRes.op # "none" /\ setRes.lim < 0) =>
        /\ setRes.err \in {ErrRead, ErrWrite}
        /\ setRes.rcv.rlim = setRes.before.rlim
        /\ setRes.rcv.wlim = setRes.before.wlim

\* C11 witness: SetWriteLimit(-1) failed on a wrapper with a write limit and
\* a Write that sleeps was entered
C11_Witness ==
  /\ setRes.op = "w" /\ setRes.lim < 0 /\ setRes.err = ErrWrite
  /\ wr.pc = "sleep" /\ wr.rcv.wlim = 4096

\* C12: a Read (Write) under a limit L > 0 that moved n bytes, with d the
\* time from the timestamp its receiver holds to the return of the
\* underlying operation, sleeps exactly floor(10^9 / L) * n - d when n > 0
\* and d is less than that, and does not sleep otherwise, never when n = 0.
C12_SleepIsAllowedMinusElapsed ==
  /\ (Entered(rd) /\ rd.rcv.rlim > 0) =>
        /\ rd.pc = "sleep" =>
              /\ rd.wake - rd.t = SleepFor(rd.d, rd.rcv.rlim, rd.n)
              /\ rd.n > 0 /\ rd.d < Allowed(rd.rcv.rlim, rd.n)
        /\ rd.pc = "idle" =>
              /\ rd.slept = SleepFor(rd.d, rd.rcv.rlim, rd.n)
              /\ rd.tret = rd.t + rd.slept
              /\ rd.n = 0 => rd.slept = 0
  /\ (Entered(wr) /\ wr.rcv.wlim > 0) =>
        /\ wr.pc = "sleep" =>
              /\ wr.wake - wr.t = SleepFor(wr.d, wr.rcv.wlim, wr.n)
              /\ wr.n > 0 /\ wr.d < Allowed(wr.rcv.wlim, wr.n)
        /\ wr.pc = "idle" =>
              /\ wr.slept = SleepFor(wr.d, wr.rcv.wlim, wr.n)
              /\ wr.tret = wr.t + wr.slept
              /\ wr.n = 0 => wr.slept = 0

\* C12 witness: a Write under limit 4096 moved a full buffer, its underlying
\* Write took a tick, and it slept for the rest of the allowed time
C12_Witness ==
  /\ wr.pc = "idle" /\ wr.calls > 0 /\ wr.rcv.wlim = 4096 /\ wr.n = BufLen
  /\ wr.d = Tick /\ wr.slept = Allowed(4096, BufLen) - Tick

\* C13 as stated: after a Read (Write) under a positive limit has returned,
\* the wrapper's timestamp of the direction is the time its underlying
\* operation returned, and the next call on the direction starts from that
\* timestamp (it finds it set).
C13_TimestampRemembered ==
  /\ (rd.pc = "idle" /\ rd.calls > 0 /\ rd.rcv.rlim > 0) => rlc.rtime = rd.t
  /\ (wr.pc = "idle" /\ wr.calls > 0 /\ wr.rcv.wlim > 0) => wlc.wtime = wr.t
  /\ (Entered(rd) /\ rd.calls > 1 /\ rd.rcv.rlim > 0) => ~rd.fresh
  /\ (Entered(wr) /\ wr.calls > 1 /\ wr.rcv.wlim > 0) => ~wr.fresh

\* C14: a Read or a SetReadLimit leaves the write limit and the write
\* timestamp as they were, in its receiver and in the wrapper, and a Write or
\* a SetWriteLimit the read limit and the read timestamp; the sleep of a Read
\* is the one computed from the read limit, the read timestamp, n and the
\* clock, and the sleep of a Write from the write-side values.
C14_OtherDirectionUntouched ==
  /\ Entered(rd) =>
        /\ rd.rcv.wlim = rlc.wlim /\ rd.rcv.wtime = rlc.wtime
        /\ rd.rcv.rlim = rlc.rlim /\ rd.rcv.Conn = rlc.Conn
        /\ (rd.pc = "sleep" /\ rd.rcv.rlim > 0) =>
              rd.wake = rd.t + Allowed(rd.rcv.rlim, rd.n) - rd.d
  /\ Entered(wr) =>
        /\ wr.rcv.rlim = wlc.rlim /\ wr.rcv.rtime = wlc.rtime
        /\ wr.rcv.wlim = wlc.wlim /\ wr.rcv.Conn = wlc.Conn
        /\ (wr.pc = "sleep" /\ wr.rcv.wlim > 0) =>
              wr.wake = wr.t + Allowed(wr.rcv.wlim, wr.n) - wr.d
  /\ setRes.op = "r" =>
        /\ setRes.rcv.wlim = setRes.before.wlim
        /\ setRes.rcv.wtime = setRes.before.wtime
  /\ setRes.op = "w" =>
        /\ setRes.rcv.rlim = setRes.before.rlim
        /\ setRes.rcv.rtime = setRes.before.rtime
  /\ setRes.op # "none" => (rlc = setRes.before /\ wlc = setRes.before)

\* C14 witness: after SetReadLimit(0) succeeded on a wrapper with both limits
\* set, a Read slept and returned
C14_Witness ==
  /\ setRes.op = "r" /\ setRes.err = NoErr /\ setRes.lim = 0
  /\ rlc.rlim > 0 /\ rlc.wlim > 0
  /\ rd.pc = "idle" /\ rd.calls = 1 /\ rd.slept > 0

\* C15: each call of Read (Write) calls the underlying operation once, at its
\* entry, and never again after an error or a short count; a sleep begins
\* only when the underlying operation of the same call has returned, and
\* every call that is entered makes the underlying call.
C15_OneUnderlyingCallThenSleep ==
  /\ [](rlc.Conn = Stream =>
         /\ conn.reads = rd.calls /\ conn.writes = wr.calls
         /\ rd.pc = "sleep" =>
               (conn.rres = [n |-> rd.n, err |-> rd.err] /\ rd.wake >= rd.t)
         /\ wr.pc = "sleep" =>
               (conn.wres = [n |-> wr.n, err |-> wr.err] /\ wr.wake >= wr.t))
  /\ [][/\ (rd.pc = "idle" /\ rd'.pc # "idle" /\ rlc.Conn = Stream) =>
            (rd'.pc = "io" /\ conn'.reads = conn.reads + 1)
        /\ (rd.pc # "sleep" /\ rd'.pc = "sleep") =>
            (rd.pc = "io" /\ conn'.reads = conn.reads)
        /\ (wr.pc = "idle" /\ wr'.pc # "idle" /\ wlc.Conn = Stream) =>
            (wr'.pc = "io" /\ conn'.writes = conn.writes + 1)
        /\ (wr.pc # "sleep" /\ wr'.pc = "sleep") =>
            (wr.pc = "io" /\ conn'.writes = conn.writes)]_vars

\* C15 witness: a throttled Read got a short count with an error and sleeps,
\* the underlying Read having been called once
C15_Witness ==
  /\ rd.pc = "sleep" /\ rd.calls = 1 /\ conn.reads = 1
  /\ rd.n = ShortN /\ rd.err = ErrEOF

C17_DivisorPositive ==
  /\ (Entered(rd) /\ ~ReadFast(rd.rcv)) => rd.rcv.rlim > 0
  /\ (Entered(wr) /\ ~WriteFast(wr.rcv)) => wr.rcv.wlim > 0
  /\ (Entered(rd) /\ rd.rcv.rtime # ZeroTime) => rd.rcv.rlim > 0
  /\ (Entered(wr) /\ wr.rcv.wtime # ZeroTime) => wr.rcv.wlim > 0
  /\ (Entered(rd) /\ rd.rcv.rlim = 0) =>
        (rd.pc # "sleep" /\ rd.slept = 0 /\ rd.rcv.rtime = ZeroTime)
  /\ (Entered(wr) /\ wr.rcv.wlim = 0) =>
        (wr.pc # "sleep" /\ wr.slept = 0 /\ wr.rcv.wtime = ZeroTime)

\* C17 witness: on a wrapper with write limit 0 and a read limit, a Write
\* moved a full buffer on the fast path while a Read is on the timed path
C17_Witness ==
  /\ wr.pc = "idle" /\ wr.calls = 1 /\ wr.rcv.wlim = 0 /\ wr.n = BufLen
  /\ rd.pc = "sleep" /\ rd.rcv.rlim = 4096

\* C18: a Read (Write) under a limit L > 0 that moved n > 0 bytes returns no
\* earlier than floor(10^9 / L) * n after its entry, the first call and
\* every later one.
C18_NoFasterThanAllowed ==
  /\ (rd.pc = "idle" /\ rd.calls > 0 /\ rd.rcv.rlim > 0 /\ rd.n > 0) =>
        rd.tret - rd.t0 >= Allowed(rd.rcv.rlim, rd.n)
  /\ (wr.pc = "idle" /\ wr.calls > 0 /\ wr.rcv.wlim > 0 /\ wr.n > 0) =>
        wr.tret - wr.t0 >= Allowed(wr.rcv.wlim, wr.n)
  /\ (rd.pc = "sleep" /\ rd.rcv.rlim > 0) =>
        rd.wake - rd.t0 >= Allowed(rd.rcv.rlim, rd.n)
  /\ (wr.pc = "sleep" /\ wr.rcv.wlim > 0) =>
        wr.wake - wr.t0 >= Allowed(wr.rcv.wlim, wr.n)

\* C18 witness: the second Read of a sequence moved a full buffer, its
\* underlying Read took a tick, and it returned after a sleep
C18_Witness ==
  /\ rd.pc = "idle" /\ rd.calls = 2 /\ rd.rcv.rlim = 4096
  /\ rd.n = BufLen /\ rd.d = Tick /\ rd.slept > 0

\* C19: a throttle sleep of a Read (Write) that moved n bytes under limit L
\* lasts more than 0 and at most floor(10^9 / L) * n nanoseconds.
C19_SleepWithinAllowed ==
  /\ (rd.pc = "sleep" /\ rd.rcv.rlim > 0) =>
        /\ rd.wake - rd.t > 0
        /\ rd.wake - rd.t <= Allowed(rd.rcv.rlim, rd.n)
  /\ (rd.pc = "idle" /\ rd.calls > 0 /\ rd.rcv.rlim > 0) =>
        /\ rd.slept >= 0
        /\ rd.slept <= Allowed(rd.rcv.rlim, rd.n)
        /\ rd.tret - rd.t = rd.slept
  /\ (wr.pc = "sleep" /\ wr.rcv.wlim > 0) =>
        /\ wr.wake - wr.t > 0
        /\ wr.wake - wr.t <= Allowed(wr.rcv.wlim, wr.n)
  /\ (wr.pc = "idle" /\ wr.calls > 0 /\ wr.rcv.wlim > 0) =>
        /\ wr.slept >= 0
        /\ wr.slept <= Allowed(wr.rcv.wlim, wr.n)
        /\ wr.tret - wr.t = wr.slept
  /\ rd.d >= 0 /\ wr.d >= 0

\* C19 witness: a Read under limit 600000000 got a short count at its entry
\* time and sleeps the whole allowed time of its bytes
C19_Witness ==
  /\ rd.pc = "sleep" /\ rd.rcv.rlim = 600000000 /\ rd.n = ShortN
  /\ rd.d = 0 /\ rd.wake - rd.t = Allowed(600000000, ShortN)

\* limits above 10^9 bytes per second
BigLimits == {L \in LimitVals \cup {Second + 1} : L > Second}

\* C20: for a limit L > 10^9 the time per byte floor(10^9 / L) is 0, so the
\* allowed time is 0 for every n and no Read or Write under such a limit
\* sleeps: it returns when its underlying operation returns.
C20_BigLimitNeverSleeps ==
  /\ \A L \in BigLimits : \A n \in {0, ShortN, BufLen} : Allowed(L, n) = 0
  /\ (Entered(rd) /\ rd.rcv.rlim > Second) =>
        /\ rd.pc # "sleep"
        /\ rd.pc = "idle" => (rd.slept = 0 /\ rd.tret = rd.t)
  /\ (Entered(wr) /\ wr.rcv.wlim > Second) =>
        /\ wr.pc # "sleep"
        /\ wr.pc = "idle" => (wr.slept = 0 /\ wr.tret = wr.t)

\* C20 witness: a Read under limit 2000000000 moved a full buffer at its
\* entry time and returned at once
C20_Witness ==
  /\ rd.pc = "idle" /\ rd.calls > 0 /\ rd.rcv.rlim = 2000000000
  /\ rd.n = BufLen /\ rd.d = 0 /\ rd.slept = 0 /\ rd.tret = rd.t0

=============================================================================
